---- MODULE Spec2Model ----
(***************************************************************************)
(* bed2seq: from a BED file, return the sequences according to the genome  *)
(* supplied (src/bed2seq/bed2seq.py).                                      *)
(*                                                                         *)
(* A run is main(): usage() -> ctrl_args() -> pyfaidx.Fasta() ->           *)
(* compute() -> write().  A BED line is modelled by the list of fields     *)
(* row.split('\t') yields; a base sequence is a sequence of one-letter     *)
(* strings.  Fields hold no blanks, so str.rstrip() only removes trailing  *)
(* tabs, that is trailing empty fields.                                    *)
(***************************************************************************)
EXTENDS Integers, Sequences, FiniteSets, TLC

\* ------------------------------------------------------------------ bounds
\* Number of lines of the BED input.
MaxRows == 2
\* Largest value of --append tried (the smallest is -1: argparse's type=int
\* accepts negative numbers).
MaxAppend == 2
\* Length of every chromosome of the reference.
GenomeLen == 106

\* ------------------------------------------------- program constants
\* textwrap.fill(seq, width=100)
FillWidth == 100

\* ------------------------------------------------------------ helpers
Min(a, b) == IF a < b THEN a ELSE b
Max(a, b) == IF a > b THEN a ELSE b

\* ------------------------------------------------- the reference genome
\* The chromosome names of the index, in the order of the .fai file.
ChrNames == <<"chr1", "chr2">>

ChrPattern(c) ==
    IF c = "chr1" THEN <<"A", "C", "G", "G", "T", "A", "T">>
                  ELSE <<"T", "T", "G", "C", "A">>

\* The bases of chromosome c; position p (0-based) is ChrBases(c)[p + 1].
ChrBases(c) ==
    [p \in 1..GenomeLen |-> ChrPattern(c)[((p - 1) % Len(ChrPattern(c))) + 1]]

\* chr in chr_dict
InChrDict(c) == \E k \in 1..Len(ChrNames) : ChrNames[k] = c

\* next(iter(chr_dict.keys()))
FirstChrName == ChrNames[1]

\* ----------------------------------------------------------- python
\* A slice bound of a sequence of length n, as Python normalises it.
SliceBound(x, n) == IF x < 0 THEN Max(n + x, 0) ELSE Min(x, n)

\* s[lo:hi]
PySlice(s, lo, hi) ==
    LET a == SliceBound(lo, Len(s))
        b == SliceBound(hi, Len(s))
    IN  IF a < b THEN SubSeq(s, a + 1, b) ELSE <<>>

\* int(s), for the decimal numerals of 0..GenomeLen
IsInt(s) == \E n \in 0..GenomeLen : ToString(n) = s
IntOf(s) == CHOOSE n \in 0..GenomeLen : ToString(n) = s

\* row.startswith('#')
HashFields == {"#header", "#chr1"}
StartsWithHash(row) == row[1] \in HashFields

\* row.rstrip().split('\t'): trailing tabs are stripped, so the trailing
\* empty fields go; the empty string still splits into one empty field.
RECURSIVE RStripSplit(_)
RStripSplit(row) ==
    IF Len(row) > 1 /\ row[Len(row)] = ""
    THEN RStripSplit(SubSeq(row, 1, Len(row) - 1))
    ELSE row

\* textwrap.fill(seq, width=100): the lines of the wrapped text.  A sequence
\* is one word, broken every FillWidth characters; the empty text has no line.
RECURSIVE Fill(_)
Fill(seq) ==
    IF seq = <<>> THEN <<>>
    ELSE IF Len(seq) <= FillWidth THEN <<seq>>
    ELSE <<SubSeq(seq, 1, FillWidth)>> \o Fill(SubSeq(seq, FillWidth + 1, Len(seq)))

\* ------------------------------------------------------------ pyfaidx
Complement(b) ==
    CASE b = "A" -> "T"
      [] b = "T" -> "A"
      [] b = "C" -> "G"
      [] b = "G" -> "C"
      [] OTHER   -> b

Reverse(s) == [k \in 1..Len(s) |-> s[Len(s) + 1 - k]]

\* seq.complement.reverse.seq
ReverseComplement(s) == Reverse([k \in 1..Len(s) |-> Complement(s[k])])

\* chr_dict[chr][start:end]: the outcomes of the lookup.  An unknown
\* chromosome raises KeyError.  A slice inside the chromosome is the bases
\* start..end-1 (0-based).  For a slice that leaves the chromosome (a negative
\* start, an end past the last base, start > end) the library either raises
\* or returns the part of the slice that exists.
Fetch(c, start, end) ==
    IF ~InChrDict(c) THEN {[ok |-> FALSE, seq |-> <<>>]}
    ELSE IF 0 <= start /\ start <= end /\ end <= GenomeLen
         THEN {[ok |-> TRUE, seq |-> SubSeq(ChrBases(c), start + 1, end)]}
         ELSE {[ok |-> FALSE, seq |-> <<>>],
               [ok |-> TRUE,
                seq |-> SubSeq(ChrBases(c), Max(start, 0) + 1, Min(end, GenomeLen))]}

\* ------------------------------------------------------- _tab_length
\* The 1-based number of the first line that does not start with '#'; 0 when
\* every line does (or there is no line).
FirstData(rs) ==
    IF \E k \in 1..Len(rs) : ~StartsWithHash(rs[k])
    THEN CHOOSE k \in 1..Len(rs) :
            /\ ~StartsWithHash(rs[k])
            /\ \A j \in 1..(k - 1) : StartsWithHash(rs[j])
    ELSE 0

_tab_length(rs) == IF FirstData(rs) = 0 THEN 0 ELSE Len(rs[FirstData(rs)])

\* --------------------------------------------------------- _input_ok
NoError == [kind |-> "None", line |-> 0, query |-> "", genome |-> ""]

\* A variant of ColumnsError that reports enumerate()'s 0-based index.
ColumnsError_ZeroBased(i) ==
    [kind |-> "not enough columns", line |-> i, query |-> "", genome |-> ""]

\* "not enough columns at line {i+1} (check your bed file)."; i is the
\* 0-based index enumerate() gives.
ColumnsError(i) ==
    [kind |-> "not enough columns", line |-> i + 1, query |-> "", genome |-> ""]

\* "chromosomes are not named in the same way ... your query: {chr} ...
\* genome: {next(iter(chr_dict.keys()))}"
ChromError(c) ==
    [kind |-> "chromosomes are not named in the same way", line |-> 0,
     query |-> c, genome |-> FirstChrName]

StrandWarning == "strand column missing: strands cannot be evaluated."

\* len(rest) < 6 and not args.nostrand, where rest is what follows the
\* first three fields.
StrandColumnMissing(a, fields) == (Len(fields) - 3) < 6 /\ ~a.nostrand

\* A variant of _input_ok without the `chr not in chr_dict` check.
_input_ok_NoChromCheck(a, rs) ==
    LET n == FirstData(rs) IN
    IF n = 0
    THEN [ret |-> TRUE, is_ok |-> TRUE, error |-> NoError, warning |-> <<>>]
    ELSE IF Len(rs[n]) < 3
         THEN [ret |-> FALSE, is_ok |-> FALSE, error |-> ColumnsError(n - 1),
               warning |-> <<>>]
         ELSE [ret |-> TRUE, is_ok |-> TRUE, error |-> NoError,
               warning |-> IF StrandColumnMissing(a, rs[n])
                           THEN <<StrandWarning>> ELSE <<>>]

\* _input_ok(args, rows, resp, chr_dict): what it returns and what it leaves
\* in resp.
_input_ok(a, rs) ==
    LET n == FirstData(rs) IN
    IF n = 0
    THEN [ret |-> TRUE, is_ok |-> TRUE, error |-> NoError, warning |-> <<>>]
    ELSE LET fields == rs[n] IN
         IF Len(fields) < 3
         THEN [ret |-> FALSE, is_ok |-> FALSE, error |-> ColumnsError(n - 1),
               warning |-> <<>>]
         ELSE LET w == IF StrandColumnMissing(a, fields)
                       THEN <<StrandWarning>> ELSE <<>>
              IN  IF ~InChrDict(fields[1])
                  THEN [ret |-> FALSE, is_ok |-> FALSE,
                        error |-> ChromError(fields[1]), warning |-> w]
                  ELSE [ret |-> TRUE, is_ok |-> TRUE, error |-> NoError,
                        warning |-> w]

\* ------------------------------------------------ compute, one row
\* The number of fields the unpacking of a row needs.
NeedColumns(tl) == IF tl >= 6 THEN 6 ELSE IF tl >= 4 THEN 4 ELSE 3

\* A variant of RowName that numbers the lines from 0.
RowName_ZeroBased(tl, fields, i) ==
    IF tl < 4 THEN "sequence_" \o ToString(i) ELSE fields[4]

\* name: the fourth field, or f"sequence_{i+1}" when tab_len < 4.
RowName(tl, fields, i) ==
    IF tl < 4 THEN "sequence_" \o ToString(i + 1) ELSE fields[4]

\* start = int(start) - args.append - 1
AdjStart(start, append) == start - append - 1

\* end = int(end) + args.append
AdjEnd(end, append) == end + append

\* A variant of HandleStrand that complements without reversing.
HandleStrand_OnlyComplement(tl, fields, a, seq) ==
    IF tl >= 6 /\ fields[6] = "-" /\ ~a.nostrand
    THEN [k \in 1..Len(seq) |-> Complement(seq[k])] ELSE seq

\* seq.complement.reverse.seq if tab_len >=6 and strand == '-' and not
\* args.nostrand else seq.seq
HandleStrand(tl, fields, a, seq) ==
    IF tl >= 6 /\ fields[6] = "-" /\ ~a.nostrand
    THEN ReverseComplement(seq) ELSE seq

\* A variant of HandleRemove that takes seq[args.append:] as the second part.
HandleRemove_HeadAndRest(a, seq) ==
    IF a.remove
    THEN PySlice(seq, 0, a.append) \o PySlice(seq, a.append, Len(seq))
    ELSE seq

\* if args.remove: seq = seq[:args.append] + seq[-args.append:]
HandleRemove(a, seq) ==
    IF a.remove
    THEN PySlice(seq, 0, a.append) \o PySlice(seq, 0 - a.append, Len(seq))
    ELSE seq

\* f">{name}\n{textwrap.fill(seq, width=100)}"
FastaRecord(name, seq) == [header |-> ">" \o name, lines |-> Fill(seq)]

Raised == [ok |-> FALSE, slice |-> <<>>,
           item |-> [header |-> "", lines |-> <<>>]]

\* One iteration of the loop of compute() on the line of 0-based index i:
\* the outcomes, an exception (too few fields to unpack, int() of a field
\* that is no number, a failed lookup) or the record appended to the result.
RowOutcomes(a, tl, row, i) ==
    LET fields == RStripSplit(row) IN
    IF Len(fields) < NeedColumns(tl) THEN {Raised}
    ELSE IF ~IsInt(fields[2]) \/ ~IsInt(fields[3]) THEN {Raised}
    ELSE LET start == AdjStart(IntOf(fields[2]), a.append)
             end   == AdjEnd(IntOf(fields[3]), a.append)
         IN  { IF o.ok
               THEN [ok |-> TRUE, slice |-> o.seq,
                     item |-> FastaRecord(RowName(tl, fields, i),
                                 HandleRemove(a, HandleStrand(tl, fields, a, o.seq)))]
               ELSE Raised
               : o \in Fetch(fields[1], start, end) }

\* ------------------------------------------------------------ inputs
\* The BED lines tried, each the fields between its tabs.
Lines ==
    { <<"chr1", "10", "20", "featureA", "0", "+">>,
      <<"chr1", "10", "20", "featureB", "0", "-">>,
      <<"chr2", "3", "103", "featureC", "0", "-">>,
      <<"chr1", "10", "20", "featureA", "0", "-", "10", "20", "0">>,
      <<"chr1", "10", "20", "featureA">>,
      <<"chr1", "10", "20">>,
      <<"chr1", "0", "2">>,
      <<"chr1", "5", "3">>,
      <<"chr1", "3", "">>,
      <<"chr1", "x", "20">>,
      <<"chr1", "3">>,
      <<"chrX", "3">>,
      <<"chrX", "10", "20", "featureA", "0", "+">>,
      <<"">>,
      <<"#header">>,
      <<"#chr1", "10", "20">> }

\* The BED inputs tried: every list of at most MaxRows lines.
Inputs == UNION { [1..n -> Lines] : n \in 0..MaxRows }

\* The command lines tried (usage()): --append, --remove, --nostrand.
Arguments ==
    [append : {0 - 1} \cup (0..MaxAppend), remove : BOOLEAN, nostrand : BOOLEAN]

\* ------------------------------------------------------------- state
VARIABLES
    args,       \* the parsed command line
    rows,       \* the lines of the BED file args.input
    pc,         \* where main() is
    chr_dict,   \* whether pyfaidx.Fasta(args.genome) has been opened
    rows_read,  \* whether compute() has read args.input
    tab_len,    \* compute(): the sniffed column count
    resp,       \* compute(): is_ok, result, warning, error
    i,          \* compute(): the number of lines the loop has gone through
    fetched,    \* compute(): the slice chr_dict[chr][start:end] of each iteration
    out_file,   \* the output file: whether it exists, and its records
    console     \* what has been printed, in order

vars == <<args, rows, pc, chr_dict, rows_read, tab_len, resp, i, fetched,
          out_file, console>>

Init ==
    /\ args \in Arguments
    /\ rows \in Inputs
    /\ pc = "ctrl_args"
    /\ chr_dict = FALSE
    /\ rows_read = FALSE
    /\ tab_len = 0
    /\ resp = [is_ok |-> TRUE, result |-> <<>>, warning |-> <<>>, error |-> NoError]
    /\ i = 0
    /\ fetched = <<>>
    /\ out_file = [exists |-> FALSE, records |-> <<>>]
    /\ console = <<>>

\* ----------------------------------------------------------- actions
\* ctrl_args(args): sys.exit when --remove comes without --append.
ctrl_args ==
    /\ pc = "ctrl_args"
    /\ IF args.remove /\ args.append = 0
       THEN /\ pc' = "exit"
            /\ console' = Append(console, "option '--remove' needs '--append' option.")
       ELSE /\ pc' = "Fasta"
            /\ console' = console
    /\ UNCHANGED <<args, rows, chr_dict, rows_read, tab_len, resp, i, fetched, out_file>>

\* main(): chr_dict = pyfaidx.Fasta(args.genome), or sys.exit on
\* FastaNotFoundError and on OSError.
OpenFasta ==
    /\ pc = "Fasta"
    /\ \/ /\ chr_dict' = TRUE
          /\ pc' = "compute"
          /\ console' = console
       \/ /\ \E msg \in {"FastaNotFoundError", "WriteError"} :
                console' = Append(console, msg)
          /\ pc' = "exit"
          /\ chr_dict' = chr_dict
    /\ UNCHANGED <<args, rows, rows_read, tab_len, resp, i, fetched, out_file>>

\* compute(), up to its loop: resp is created, the input is read, the column
\* count is sniffed and the first data line is checked.
compute_begin ==
    /\ pc = "compute"
    /\ rows_read' = TRUE
    /\ tab_len' = _tab_length(rows)
    /\ LET chk == _input_ok(args, rows) IN
       /\ resp' = [is_ok |-> chk.is_ok, result |-> <<>>, warning |-> chk.warning,
                   error |-> chk.error]
       /\ pc' = IF chk.ret THEN "loop" ELSE "write"
    /\ UNCHANGED <<args, rows, chr_dict, i, fetched, out_file, console>>

\* A variant of compute_row that goes on to the next line when a line raises.
compute_row_SkipsFailedRow ==
    /\ pc = "loop"
    /\ i < Len(rows)
    /\ \E o \in RowOutcomes(args, tab_len, rows[i + 1], i) :
          /\ resp' = IF o.ok THEN [resp EXCEPT !.result = Append(@, o.item)] ELSE resp
          /\ fetched' = IF o.ok THEN Append(fetched, o.slice) ELSE fetched
    /\ i' = i + 1
    /\ UNCHANGED <<args, rows, pc, chr_dict, rows_read, tab_len, out_file, console>>

\* compute(): one iteration of `for i,row in enumerate(rows)`.  An exception
\* is caught nowhere: it ends the process.
compute_row ==
    /\ pc = "loop"
    /\ i < Len(rows)
    /\ \E o \in RowOutcomes(args, tab_len, rows[i + 1], i) :
          IF o.ok
          THEN /\ resp' = [resp EXCEPT !.result = Append(@, o.item)]
               /\ fetched' = Append(fetched, o.slice)
               /\ i' = i + 1
               /\ pc' = pc
          ELSE /\ pc' = "crash"
               /\ UNCHANGED <<resp, fetched, i>>
    /\ UNCHANGED <<args, rows, chr_dict, rows_read, tab_len, out_file, console>>

\* compute(): the loop is over, return resp.
compute_return ==
    /\ pc = "loop"
    /\ i = Len(rows)
    /\ pc' = "write"
    /\ UNCHANGED <<args, rows, chr_dict, rows_read, tab_len, resp, i, fetched,
                   out_file, console>>

\* write(): the results go to the output file, when there are any; an error
\* is printed instead when resp is not ok.
write_results ==
    /\ pc = "write"
    /\ IF resp.is_ok
       THEN /\ pc' = "warnings"
            /\ IF resp.result # <<>>
               THEN /\ out_file' = [exists |-> TRUE, records |-> resp.result]
                    /\ console' = Append(console, "succefully created.")
               ELSE UNCHANGED <<out_file, console>>
       ELSE /\ pc' = "done"
            /\ console' = Append(console, "Error")
            /\ out_file' = out_file
    /\ UNCHANGED <<args, rows, chr_dict, rows_read, tab_len, resp, i, fetched>>

\* The warnings the two nested loops of write() print: every warning, once
\* for each warning.
RECURSIVE Repeat(_, _)
Repeat(ws, n) == IF n = 0 THEN <<>> ELSE ws \o Repeat(ws, n - 1)

\* write(): the warnings, after the file.
write_warnings ==
    /\ pc = "warnings"
    /\ pc' = "done"
    /\ console' = IF resp.warning # <<>>
                  THEN console \o <<"Warnings:">> \o Repeat(resp.warning, Len(resp.warning))
                  ELSE console
    /\ UNCHANGED <<args, rows, chr_dict, rows_read, tab_len, resp, i, fetched, out_file>>

Next ==
    \/ ctrl_args
    \/ OpenFasta
    \/ compute_begin
    \/ compute_row
    \/ compute_return
    \/ write_results
    \/ write_warnings

Spec == Init /\ [][Next]_vars

\* ------------------------------------------------------- properties
\* The bases of an emitted record: its sequence lines, joined.
RECURSIVE Unfill(_)
Unfill(lines) == IF lines = <<>> THEN <<>> ELSE Head(lines) \o Unfill(Tail(lines))

Emitted(k) == Unfill(resp.result[k].lines)

\* The column count of the first line that is no comment (0 without one).
Sniffed == IF FirstData(rows) = 0 THEN 0 ELSE Len(rows[FirstData(rows)])

\* Line k is a six-column row of a chromosome of the reference, inside it.
SixColumnRow(k) ==
    /\ Len(rows[k]) = 6
    /\ InChrDict(rows[k][1])
    /\ IsInt(rows[k][2]) /\ IsInt(rows[k][3])
    /\ IntOf(rows[k][2]) <= IntOf(rows[k][3])

\* compute() has returned.
Returned == pc \in {"write", "warnings", "done"}

\* C1: with append = 0 and remove unset, the record of a six-column '+' row
\* (in a six-column file) is '>name' followed by exactly the end - start
\* bases at the 0-based positions start..end-1 of its chromosome.
C1_ForwardWindow ==
    (args.append = 0 /\ ~args.remove /\ Sniffed = 6) =>
        \A k \in 1..Len(resp.result) :
            (SixColumnRow(k) /\ rows[k][6] = "+") =>
                /\ resp.result[k].header = ">" \o rows[k][4]
                /\ Emitted(k) = SubSeq(ChrBases(rows[k][1]),
                                       IntOf(rows[k][2]) + 1, IntOf(rows[k][3]))
                /\ Len(Emitted(k)) = IntOf(rows[k][3]) - IntOf(rows[k][2])

\* The slice of row k after the strand rule: reverse-complemented when the
\* file has six columns or more, the strand is '-' and nostrand is unset.
MinusStrand(k) == Sniffed >= 6 /\ rows[k][6] = "-" /\ ~args.nostrand
Stranded(k) == IF MinusStrand(k) THEN ReverseComplement(fetched[k]) ELSE fetched[k]

\* The first n and the last n elements of s (n > 0).
Flanks(s, n) ==
    SubSeq(s, 1, Min(n, Len(s))) \o SubSeq(s, Max(Len(s) - n, 0) + 1, Len(s))

\* C2, as stated: the emitted sequence of every row is the reverse-complement
\* of the slice fetched for it when the file has six columns or more, the
\* strand is '-' and nostrand is unset, and the slice itself otherwise.
\* (Stated for append >= 0, the values append is meant to take, and for the
\* rows whose padded window lies inside the chromosome.)
C2_StrandAsStated ==
    args.append >= 0 =>
        \A k \in 1..Len(resp.result) :
            Len(fetched[k]) = IntOf(rows[k][3]) - IntOf(rows[k][2]) + 2 * args.append + 1
                => Emitted(k) = Stranded(k)

\* C2, amended: that holds when remove is unset; when remove is set (with
\* append > 0) the emitted sequence is the first append and the last append
\* bases of that reverse-complemented (or forward) slice.
C2_Strand ==
    \A k \in 1..Len(resp.result) :
        /\ ~args.remove => Emitted(k) = Stranded(k)
        /\ (args.remove /\ args.append > 0) =>
               Emitted(k) = Flanks(Stranded(k), args.append)

\* A '-' row of a six-column file, nostrand and remove unset, has been
\* emitted, and reverse-complementing changed its slice.
C2_Witness ==
    /\ ~args.remove
    /\ \E k \in 1..Len(resp.result) :
          MinusStrand(k) /\ Emitted(k) # fetched[k] /\ Len(fetched[k]) > 1

\* C3: with append = k > 0 and remove set, a row whose (reverse-complemented
\* or forward) slice has at least 2k bases is emitted as exactly 2k bases, the
\* first k of the slice followed by its last k.
C3_RemoveKeepsFlanks ==
    (args.remove /\ args.append > 0) =>
        \A k \in 1..Len(resp.result) :
            LET s == Stranded(k)
                n == args.append
            IN  Len(s) >= 2 * n =>
                    /\ Len(Emitted(k)) = 2 * n
                    /\ Emitted(k) = SubSeq(s, 1, n) \o SubSeq(s, Len(s) - n + 1, Len(s))

\* A row has been emitted with remove set and append = 2, from a slice
\* longer than its two flanks.
C3_Witness ==
    /\ args.remove /\ args.append = 2
    /\ \E k \in 1..Len(resp.result) : Len(fetched[k]) > 4 /\ Len(Emitted(k)) = 4

\* C4: remove with an append that is not greater than 0 ends the run in
\* ctrl_args: the index is never opened, the BED input never read, no record
\* computed, no file written.
C4_RemoveNeedsAppend ==
    (args.remove /\ ~(args.append > 0)) =>
        /\ pc \in {"ctrl_args", "exit"}
        /\ ~chr_dict
        /\ ~rows_read
        /\ resp.result = <<>>
        /\ ~out_file.exists

\* The first line that is no comment, when there is one.
FirstRow == rows[FirstData(rows)]

\* What C5 and C8 say of a run whose first data line fails the check of
\* _input_ok with the error err: no row is processed, compute() returns with
\* is_ok false, an empty result and that error, and no file is written.
FailsInputCheck(err) ==
    /\ pc \notin {"loop", "crash", "warnings"}
    /\ i = 0 /\ fetched = <<>> /\ resp.result = <<>>
    /\ ~out_file.exists
    /\ Returned => (~resp.is_ok /\ resp.error = err)
    /\ pc = "done" => console = <<"Error">>

\* C5, as stated: when the first field of the first data line names no
\* chromosome of the reference, compute() ends in the error state, its error
\* naming that chromosome and one chromosome of the reference, no row is
\* processed and no file written.
C5_ChromAsStated ==
    (args.append >= 0 /\ FirstData(rows) # 0 /\ FirstRow[1] # ""
        /\ ~InChrDict(FirstRow[1])) =>
        FailsInputCheck([kind |-> "chromosomes are not named in the same way",
                         line |-> 0, query |-> FirstRow[1], genome |-> "chr1"])

\* C5, amended: that holds when the first data line has at least three
\* fields (with fewer, the error is the column-count error of C8).
C5_Chrom ==
    (FirstData(rows) # 0 /\ Len(FirstRow) >= 3 /\ ~InChrDict(FirstRow[1])) =>
        FailsInputCheck([kind |-> "chromosomes are not named in the same way",
                         line |-> 0, query |-> FirstRow[1], genome |-> "chr1"])

\* A run has ended on the chromosome error of a first data line that follows
\* a comment line.
C5_Witness ==
    /\ pc = "done"
    /\ FirstData(rows) = 2
    /\ resp.error.query = "chrX" /\ resp.error.genome = "chr1"

\* C6: a BED input without data line (no line, or comment lines only) runs to
\* its end: no exception, compute() returns is_ok true with an empty result
\* and no error, and write() creates no file.
C6_NoDataRow ==
    (args.append >= 0 /\ FirstData(rows) = 0) =>
        /\ pc # "crash"
        /\ ~out_file.exists
        /\ Returned => (resp.is_ok /\ resp.result = <<>> /\ resp.error = NoError)

\* C7: in a file sniffed at fewer than 4 columns the record of line n (1-based)
\* is named sequence_<n>; at 4 columns or more it is named by the fourth
\* field of its line.
C7_Names ==
    \A n \in 1..Len(resp.result) :
        resp.result[n].header =
            ">" \o (IF Sniffed < 4 THEN "sequence_" \o ToString(n) ELSE rows[n][4])

\* Two lines of a three-column file have been emitted.
C7_Witness ==
    Sniffed = 3 /\ Len(resp.result) = 2 /\ resp.result[2].header = ">sequence_2"

\* C8: when the first data line has fewer than 3 fields, _input_ok fails with
\* the column-count error naming the 1-based number of that line, compute()
\* returns is_ok false with an empty result, no row is extracted and no file
\* is written.
C8_TooFewColumns ==
    (FirstData(rows) # 0 /\ Len(FirstRow) < 3) =>
        FailsInputCheck([kind |-> "not enough columns", line |-> FirstData(rows),
                         query |-> "", genome |-> ""])

\* A run has ended on the column-count error of line 2, after a comment line.
C8_Witness ==
    /\ pc = "done"
    /\ Len(rows) = 2 /\ StartsWithHash(rows[1])
    /\ resp.error.kind = "not enough columns" /\ resp.error.line = 2

\* C9: the output file exists only once every line has been processed, and
\* then holds one record per line, in the order of the lines; a run that
\* fails at a line stops there, and neither it nor a run that ends on an
\* error ever has an output file, the records of the earlier lines included.
C9_AllOrNothing ==
    /\ out_file.exists =>
          /\ pc \in {"warnings", "done"}
          /\ resp.is_ok
          /\ i = Len(rows)
          /\ Len(out_file.records) = Len(rows)
          /\ \A n \in 1..Len(rows) :
                /\ out_file.records[n] = resp.result[n]
                /\ out_file.records[n].header =
                      ">" \o (IF Sniffed < 4 THEN "sequence_" \o ToString(n)
                                             ELSE rows[n][4])
    /\ pc = "crash" =>
          /\ i < Len(rows)
          /\ Len(resp.result) = i
          /\ ~out_file.exists
          /\ ~ENABLED Next
    /\ (pc = "exit" \/ (Returned /\ ~resp.is_ok)) => ~out_file.exists

\* The second line of a run has failed after the record of the first was
\* computed.
C9_Witness ==
    pc = "crash" /\ Len(rows) = 2 /\ Len(resp.result) = 1 /\ ~out_file.exists

\* C10: once the first data line has been checked, the strand warning is
\* recorded exactly when nostrand is unset and that line has fewer than 6
\* fields (a six-column file carries none); and a warning is printed only
\* on a run that is ok, after its output file was written.
C10_StrandWarning ==
    args.append >= 0 =>
        /\ (rows_read /\ FirstData(rows) # 0 /\ Len(FirstRow) >= 3) =>
              ((resp.warning # <<>>) <=> (~args.nostrand /\ Len(FirstRow) < 6))
        /\ (\E n \in 1..Len(console) : console[n] = StrandWarning) =>
              (resp.is_ok /\ out_file.exists)

====
